---------------------------- MODULE Spec2Model ----------------------------
(***************************************************************************)
(* Model of dicom-parser-rs:                                               *)
(*   - attribute.rs      Attribute::ele / Attribute::ile header decoding   *)
(*   - dataset.rs        the buffering Parser (appends every chunk to its  *)
(*                       own buffer and walks it with a read position)     *)
(*   - parser/data_set.rs the DataSetParser driver over resumable          *)
(*                       sub-parsers, and parse_full                       *)
(* A behaviour of Spec exercises one of the two engines on one encoded data *)
(* set, handed over in chunks chosen by the caller.  DecodeSpec applies the *)
(* two header decoders to byte windows, and DriverSpec walks the loop of    *)
(* DataSetParser::parse one iteration at a time over whatever results a    *)
(* sub-parser may return.                                                  *)
(***************************************************************************)
EXTENDS Integers, Sequences, FiniteSets, TLC

\* ------------------------------------------------------------------ bounds
\* Largest number of attributes in a generated data set.
MaxAttrs == 2
\* Largest number of payload bytes in a generated data set (all attributes).
MaxPayload == 2
\* Largest number of DataSetParser::parse calls made on one driver.
MaxCalls == 3
\* DriverSpec: largest number of bytes in the slice given to one call.
MaxChunk == 2
\* DriverSpec: number of distinct continuations a sub-parser may hand back.
MaxContinuations == 2

\* --------------------------------------------------------------- constants
\* dataset.rs:61  "(self.buffer.len() - self.buffer_position) >= 10"
HeaderThreshold == 10

\* Control (dataset.rs:4-8)
Control == {"Element", "Data", "Stop"}

\* ParseState (parser/mod.rs, used at data_set.rs:40-57 and 82-87)
ParseState == {"Cancelled", "Incomplete", "Partial", "Completed"}

\* ------------------------------------------------------------ byte helpers
\* &bytes[k..]
From(bytes, k) == SubSeq(bytes, k + 1, Len(bytes))

\* &bytes[a..b]
Slice(bytes, a, b) == SubSeq(bytes, a + 1, b)

Min(a, b) == IF a <= b THEN a ELSE b

\* byte_parser::le_u16 : little-endian u16 of the first two bytes
le_u16(bytes) == bytes[1] + 256 * bytes[2]

\* byte_parser::le_u32 : little-endian u32 of the first four bytes (four
\* bytes of 0..255 never exceed 32 bits, so nothing is cut off)
le_u32(bytes) ==
    bytes[1] + 256 * bytes[2] + 65536 * bytes[3] + 16777216 * bytes[4]

\* Indexing bytes[3] of a slice shorter than four bytes is out of bounds.
le_u32_in_bounds(bytes) == Len(bytes) >= 4

\* Tag::from_bytes : group = LE u16 of bytes 0-1, element = LE u16 of bytes 2-3
Tag_from_bytes(bytes) ==
    [group |-> le_u16(bytes), element |-> le_u16(From(bytes, 2))]

\* ------------------------------------------------------------ attribute.rs
\* b'O' = 79, b'B' = 66, b'W' = 87, b'S' = 83, b'Q' = 81, b'F' = 70,
\* b'U' = 85, b'T' = 84, b'N' = 78, b'L' = 76
\* Mutant of length_is_u32: only the first byte of the VR code is looked at.
length_is_u32_first_byte(bytes) ==
    bytes[1] = 79 \/ bytes[1] = 83 \/ bytes[1] = 85

\* attribute.rs:4-11
length_is_u32(bytes) ==
    \/ (bytes[1] = 79 /\ bytes[2] = 66)
    \/ (bytes[1] = 79 /\ bytes[2] = 87)
    \/ (bytes[1] = 83 /\ bytes[2] = 81)
    \/ (bytes[1] = 79 /\ bytes[2] = 70)
    \/ (bytes[1] = 85 /\ bytes[2] = 84)
    \/ (bytes[1] = 85 /\ bytes[2] = 78)

\* Attribute::ele (explicit little endian).  Needs 8 bytes, and 12 when the
\* VR is one of the six long ones.
ele(bytes) ==
    IF length_is_u32(From(bytes, 4))
    THEN [tag |-> Tag_from_bytes(bytes),
          vr |-> <<bytes[5], bytes[6]>>,
          length |-> le_u32(From(bytes, 8)),
          data_position |-> 12]
    ELSE [tag |-> Tag_from_bytes(bytes),
          vr |-> <<bytes[5], bytes[6]>>,
          length |-> le_u16(From(bytes, 6)),
          data_position |-> 8]

\* Attribute::ele panics (index out of bounds inside le_u32) when the VR is
\* long and the window holds fewer than 12 bytes.
ele_panics(bytes) ==
    length_is_u32(From(bytes, 4)) /\ ~le_u32_in_bounds(From(bytes, 8))

\* Mutant of ile: the length is read as 16 bits.
ile_u16_length(bytes) ==
    [tag |-> Tag_from_bytes(bytes),
     vr |-> <<85, 78>>,
     length |-> le_u16(From(bytes, 4)),
     data_position |-> 8]

\* Attribute::ile (implicit little endian)
ile(bytes) ==
    [tag |-> Tag_from_bytes(bytes),
     vr |-> <<85, 78>>,
     length |-> le_u32(From(bytes, 4)),
     data_position |-> 8]

\* ------------------------------------------------------------- input data
\* The VR codes of generated attributes: UL (16-bit length) and OB (32-bit
\* length), the two of make_dataset.
VRCodes == {<<85, 76>>, <<79, 66>>}

\* An attribute to encode: its VR and its payload length.
AttrSpecs == [vr : VRCodes, length : 0 .. MaxPayload]

RECURSIVE PayloadTotal(_, _)
\* Payload bytes of attributes i .. Len(ds).
PayloadTotal(ds, i) ==
    IF i > Len(ds) THEN 0 ELSE ds[i].length + PayloadTotal(ds, i + 1)

\* Data sets of 1 .. MaxAttrs attributes holding at most MaxPayload payload
\* bytes between them.
DataSets ==
    {ds \in UNION {[1 .. n -> AttrSpecs] : n \in 1 .. MaxAttrs} :
        PayloadTotal(ds, 1) <= MaxPayload}

\* Handlers: the answer to each header callback.  A handler that has
\* answered Stop answers Stop to anything it is asked afterwards.
Policies(n) ==
    {f \in [1 .. n -> Control] :
        \A i \in 1 .. n : f[i] = "Stop" => \A j \in i .. n : f[j] = "Stop"}

\* Payload byte j (from 0) of attribute i (from 1): all distinct, none zero.
PayloadByte(i, j) == 16 * i + j + 1

Payload(i, len) == [j \in 1 .. len |-> PayloadByte(i, j - 1)]

\* Header bytes as make_dataset writes them: tag (2, i-1), the VR, then a
\* 16-bit length, or two reserved bytes and a 32-bit length.
HeaderBytes(i, a) ==
    IF length_is_u32(a.vr)
    THEN <<2, 0, (i - 1) % 256, (i - 1) \div 256, a.vr[1], a.vr[2], 0, 0,
           a.length % 256, (a.length \div 256) % 256, 0, 0>>
    ELSE <<2, 0, (i - 1) % 256, (i - 1) \div 256, a.vr[1], a.vr[2],
           a.length % 256, (a.length \div 256) % 256>>

RECURSIVE make_dataset(_, _)
\* The bytes of attributes i .. Len(ds) of data set ds.
make_dataset(ds, i) ==
    IF i > Len(ds) THEN <<>>
    ELSE HeaderBytes(i, ds[i]) \o Payload(i, ds[i].length) \o make_dataset(ds, i + 1)

\* --------------------------------------------------------------- variables
VARIABLES
    engine,     \* which parser this run drives: "Parser" or "DataSetParser"
    dataset,    \* the attributes of the data set being parsed
    stream,     \* its bytes, as make_dataset encodes them
    policy,     \* the Callback/Handler: the Control its k-th header callback returns
    parser,     \* dataset.rs Parser (with its callback's record of calls)
    fed,        \* number of stream bytes handed to Parser::parse so far
    dsp,        \* parser/data_set.rs DataSetParser
    handler,    \* the calls the driver's Handler has received
    offset,     \* the caller's place in the stream: the bytes_consumed of
                \* all DataSetParser::parse calls so far, added up
    ncalls,     \* number of DataSetParser::parse calls made
    last,       \* the latest DataSetParser::parse call: its input and result
    full,       \* parse_full's input length and result, once it has run
    window,     \* DecodeSpec: the bytes handed to Attribute::ele / ::ile
    attr,       \* DecodeSpec: the decoder applied and the Attribute it returned
    call        \* DriverSpec: the DataSetParser::parse call in progress (its
                \* locals and place in the loop) and what it returned

vars == <<engine, dataset, stream, policy, parser, fed, dsp, handler, offset,
          ncalls, last, full, window, attr, call>>

\* ---------------------------------------------------------------- callback
\* The callback records every call, as TestCallback does (dataset.rs:88-99).
ElementEvent(attribute, control) ==
    [cb |-> "element", attribute |-> attribute, data |-> <<>>, control |-> control]

DataEvent(attribute, data) ==
    [cb |-> "data", attribute |-> attribute, data |-> data, control |-> "Data"]

IsElement(e) == e.cb = "element"

IsData(e) == e.cb = "data"

ElementCount(log) == Len(SelectSeq(log, IsElement))

\* What the k-th header callback answers.
ControlOf(k) == IF k \in DOMAIN policy THEN policy[k] ELSE "Element"

\* ------------------------------------------------------ dataset.rs: Parser
None == <<>>

Some(x) == <<x>>

\* Parser::new (dataset.rs:26-36)
Parser_new ==
    [buffer |-> <<>>,
     buffer_position |-> 0,
     data_position |-> 0,
     attribute |-> None,
     element_data_bytes_remaining |-> 0,
     state |-> "Element",
     callback |-> <<>>,
     panicked |-> FALSE]

\* dataset.rs:43 : the whole remaining payload is in the buffer
PayloadAvailable(p) ==
    (Len(p.buffer) - p.buffer_position) >= p.element_data_bytes_remaining

\* Mutant of DeliverData: the slice handed over has no upper bound,
\* &self.buffer[self.buffer_position..].
DeliverData_unbounded(p) ==
    IF p.state = "Data"
    THEN [p EXCEPT
            !.callback = Append(@, DataEvent(p.attribute[1],
                                             From(p.buffer, p.buffer_position))),
            !.state = "Element"]
    ELSE p

\* dataset.rs:44-51 : hand the payload to the callback when it asked for it
DeliverData(p) ==
    IF p.state = "Data"
    THEN [p EXCEPT
            !.callback = Append(@, DataEvent(p.attribute[1],
                Slice(p.buffer, p.buffer_position,
                      p.buffer_position + p.element_data_bytes_remaining))),
            !.state = "Element"]
    ELSE p

\* Mutant of SkipPayload: only the read position in the buffer is advanced
\* (line 54 left out), so the stream position falls behind.
SkipPayload_buffer_only(p) ==
    [p EXCEPT
        !.buffer_position = @ + p.element_data_bytes_remaining,
        !.element_data_bytes_remaining = 0]

\* dataset.rs:53-55 : step over the payload
SkipPayload(p) ==
    [p EXCEPT
        !.buffer_position = @ + p.element_data_bytes_remaining,
        !.data_position = @ + p.element_data_bytes_remaining,
        !.element_data_bytes_remaining = 0]

\* dataset.rs:42-59 when the payload is available
PayloadStep(p) ==
    IF p.element_data_bytes_remaining > 0 THEN SkipPayload(DeliverData(p)) ELSE p

\* dataset.rs:61 : enough bytes to decode a header
HeaderAvailable(p) == (Len(p.buffer) - p.buffer_position) >= HeaderThreshold

\* Mutant of AbsoluteAttribute: line 65 left out, the attribute keeps the
\* offset relative to its own header.
AbsoluteAttribute_relative(attribute, data_position) == attribute

\* dataset.rs:65 : the attribute handed to the callback carries the absolute
\* payload offset
AbsoluteAttribute(attribute, data_position) ==
    [attribute EXCEPT !.data_position = data_position]

\* Mutant of HeaderStep: the attribute is stored (line 68) as it was decoded,
\* before line 65 gave it the stream offset of its payload.
HeaderStep_stores_decoded(p) ==
    LET decoded == ele(From(p.buffer, p.buffer_position))
        data_position == p.data_position + decoded.data_position
        attribute == AbsoluteAttribute(decoded, data_position)
        control == ControlOf(ElementCount(p.callback) + 1)
    IN  [p EXCEPT
            !.buffer_position = @ + decoded.data_position,
            !.data_position = data_position,
            !.element_data_bytes_remaining = attribute.length,
            !.state = control,
            !.callback = Append(@, ElementEvent(attribute, control)),
            !.attribute = Some(decoded)]

\* dataset.rs:62-68
HeaderStep(p) ==
    LET decoded == ele(From(p.buffer, p.buffer_position))
        data_position == p.data_position + decoded.data_position
        attribute == AbsoluteAttribute(decoded, data_position)
        control == ControlOf(ElementCount(p.callback) + 1)
    IN  [p EXCEPT
            !.buffer_position = @ + decoded.data_position,
            !.data_position = data_position,
            !.element_data_bytes_remaining = attribute.length,
            !.state = control,
            !.callback = Append(@, ElementEvent(attribute, control)),
            !.attribute = Some(attribute)]

\* Mutant of Stopped: the loop does not look at the state.
Stopped_never(p) == FALSE

\* dataset.rs:41 : while self.state != Control::Stop
Stopped(p) == p.state = "Stop"

RECURSIVE ParseLoop(_)
\* dataset.rs:41-72 : the while loop of Parser::parse
ParseLoop(p) ==
    IF Stopped(p) THEN p
    ELSE IF p.element_data_bytes_remaining > 0 /\ ~PayloadAvailable(p) THEN p
    ELSE LET q == PayloadStep(p) IN
         IF ~HeaderAvailable(q) THEN q
         ELSE IF ele_panics(From(q.buffer, q.buffer_position))
              THEN [q EXCEPT !.panicked = TRUE]
              ELSE ParseLoop(HeaderStep(q))

\* Parser::parse (dataset.rs:38-74)
Parser_parse(p, bytes) == ParseLoop([p EXCEPT !.buffer = @ \o bytes])

\* ------------------------------------------------- parser: sub-parsers
\* ParseResult::cancelled / incomplete / completed / partial
ParseResult(state, bytes_consumed, continuation, h) ==
    [state |-> state, bytes_consumed |-> bytes_consumed,
     parser |-> continuation, handler |-> h]

\* The attribute header decoder, AttributeParser { phantom } (data_set.rs:17-19)
AttributeParser ==
    [kind |-> "AttributeParser", attribute |-> None, remaining |-> 0,
     control |-> "Element"]

\* The payload forwarder an AttributeParser continues with.
ValueParser(attribute, remaining, control) ==
    [kind |-> "ValueParser", attribute |-> Some(attribute),
     remaining |-> remaining, control |-> control]

\* The payload forwarder: hands on (Data) or skips (Element) the payload bytes
\* at hand; Completed when the payload ends here, else Partial with itself as
\* the continuation for the rest.
ValueParser_parse(v, h, bytes) ==
    LET n == Min(Len(bytes), v.remaining)
        h1 == IF v.control = "Data" /\ n > 0
              THEN Append(h, DataEvent(v.attribute[1], Slice(bytes, 0, n)))
              ELSE h
    IN  IF n = v.remaining
        THEN ParseResult("Completed", n, None, h1)
        ELSE ParseResult("Partial", n,
                         Some([v EXCEPT !.remaining = @ - n]), h1)

\* The header decoder: Incomplete (nothing consumed) until the whole header is
\* at hand; then one header callback, and Cancelled on Stop, else the payload
\* forwarder on the bytes after the header.
AttributeParser_parse(h, bytes) ==
    IF Len(bytes) < 8 THEN ParseResult("Incomplete", 0, None, h)
    ELSE IF ele_panics(bytes) THEN ParseResult("Incomplete", 0, None, h)
    ELSE LET attribute == ele(bytes)
             control == ControlOf(ElementCount(h) + 1)
             h1 == Append(h, ElementEvent(attribute, control))
             v == ValueParser_parse(
                      ValueParser(attribute, attribute.length, control), h1,
                      From(bytes, attribute.data_position))
         IN  IF control = "Stop"
             THEN ParseResult("Cancelled", attribute.data_position, None, h1)
             ELSE [v EXCEPT !.bytes_consumed = @ + attribute.data_position]

\* dyn Parser::parse of the current sub-parser (data_set.rs:36)
SubParser_parse(sub, h, bytes) ==
    IF sub.kind = "AttributeParser"
    THEN AttributeParser_parse(h, bytes)
    ELSE ValueParser_parse(sub, h, bytes)

\* ------------------------------------------- parser/data_set.rs: the driver
\* DataSetParser::default (data_set.rs:16-25)
DataSetParser_default ==
    [parser |-> Some(AttributeParser), total_bytes_consumed |-> 0]

Ok(state, bytes_consumed) ==
    [ok |-> TRUE, state |-> state, bytes_consumed |-> bytes_consumed]

Err == [ok |-> FALSE, state |-> "Err", bytes_consumed |-> 0]

\* Mutant of LoopGuard: the loop ends with one byte left.
LoopGuard_more_than_one(remaining_bytes) == Len(remaining_bytes) > 1

\* data_set.rs:33 : while !remaining_bytes.is_empty()
LoopGuard(remaining_bytes) == remaining_bytes # <<>>

\* Mutant of Accumulate: `=` for `+=`.
Accumulate_last(bytes_consumed, result) == result.bytes_consumed

\* data_set.rs:37 : bytes_consumed += result.bytes_consumed
Accumulate(bytes_consumed, result) == bytes_consumed + result.bytes_consumed

\* Mutant of InstallParser: the Partial arm keeps the current sub-parser
\* instead of taking the continuation.
InstallParser_keep(current, result) ==
    CASE result.state = "Cancelled" -> None
      [] result.state = "Incomplete" -> current
      [] result.state = "Partial" -> current
      [] result.state = "Completed" -> Some(AttributeParser)

\* Mutant of InstallParser: the Completed arm keeps the current sub-parser.
InstallParser_completed_keeps(current, result) ==
    CASE result.state = "Cancelled" -> None
      [] result.state = "Incomplete" -> current
      [] result.state = "Partial" -> result.parser
      [] result.state = "Completed" -> current

\* data_set.rs:40-57 : the sub-parser the driver holds after a result
InstallParser(current, result) ==
    CASE result.state = "Cancelled" -> None
      [] result.state = "Incomplete" -> current
      [] result.state = "Partial" -> result.parser
      [] result.state = "Completed" -> Some(AttributeParser)

\* Mutant of Returns: only Cancelled ends the call.
Returns_cancelled_only(state) == state = "Cancelled"

\* data_set.rs:41-47 : Cancelled and Incomplete end the call
Returns(state) == state \in {"Cancelled", "Incomplete"}

\* Mutant of Exhausted: the state of the last sub-parser result is passed on.
Exhausted_partial(bytes_consumed) == Ok("Partial", bytes_consumed)

\* data_set.rs:63 : the chunk is used up
Exhausted(bytes_consumed) == Ok("Completed", bytes_consumed)

\* data_set.rs:60 : no sub-parser to drive
NoParser(d) == d.parser = None

RECURSIVE DataSetLoop(_, _, _, _)
\* data_set.rs:33-63 : the loop of DataSetParser::parse
DataSetLoop(d, h, remaining_bytes, bytes_consumed) ==
    IF ~LoopGuard(remaining_bytes)
    THEN [d |-> d, handler |-> h, result |-> Exhausted(bytes_consumed)]
    ELSE IF NoParser(d)
    THEN [d |-> d, handler |-> h, result |-> Err]
    ELSE LET r == SubParser_parse(d.parser[1], h, remaining_bytes)
             consumed == Accumulate(bytes_consumed, r)
             d1 == [parser |-> InstallParser(d.parser, r),
                    total_bytes_consumed |->
                        d.total_bytes_consumed + r.bytes_consumed]
         IN  IF Returns(r.state)
             THEN [d |-> d1, handler |-> r.handler,
                   result |-> Ok(r.state, consumed)]
             ELSE DataSetLoop(d1, r.handler,
                              From(remaining_bytes, r.bytes_consumed), consumed)

\* DataSetParser::parse (data_set.rs:29-71)
DataSetParser_parse(d, h, bytes) == DataSetLoop(d, h, bytes, 0)

\* data_set.rs:82-88 : what parse_full makes of the driver's result
FullResult(result) ==
    IF ~result.ok THEN [ok |-> FALSE, bytes_consumed |-> 0, cancelled |-> FALSE]
    ELSE CASE result.state = "Cancelled" ->
                [ok |-> TRUE, bytes_consumed |-> result.bytes_consumed,
                 cancelled |-> TRUE]
           [] result.state = "Incomplete" ->
                [ok |-> FALSE, bytes_consumed |-> 0, cancelled |-> FALSE]
           [] result.state = "Partial" ->
                [ok |-> FALSE, bytes_consumed |-> 0, cancelled |-> FALSE]
           [] result.state = "Completed" ->
                [ok |-> TRUE, bytes_consumed |-> result.bytes_consumed,
                 cancelled |-> FALSE]

\* parse_full (data_set.rs:76-90) : a fresh driver, one parse call
parse_full(h, bytes) ==
    LET out == DataSetParser_parse(DataSetParser_default, h, bytes)
    IN  [handler |-> out.handler, result |-> FullResult(out.result)]

\* No DataSetParser::parse call is being walked through.  pc: "idle" outside
\* a call, "loop" inside the while loop; len: the length of the slice given;
\* remaining_bytes, bytes_consumed: the locals of lines 30-31; result: what
\* the call returned; sub: the state of the latest sub-parser result of the
\* call; before: the sub-parser the driver held when that result came;
\* cancelled: some sub-parser result so far had state Cancelled.
NoCall ==
    [pc |-> "idle", len |-> 0, remaining_bytes |-> <<>>, bytes_consumed |-> 0,
     result |-> None, sub |-> None, before |-> None, cancelled |-> FALSE]

\* ------------------------------------------------------------------ actions
Init ==
    /\ engine \in {"Parser", "DataSetParser"}
    /\ dataset \in DataSets
    /\ stream = make_dataset(dataset, 1)
    /\ policy \in Policies(Len(dataset))
    /\ parser = Parser_new
    /\ fed = 0
    /\ dsp = DataSetParser_default
    /\ handler = <<>>
    /\ offset = 0
    /\ ncalls = 0
    /\ last = None
    /\ full = None
    /\ window = <<>>
    /\ attr = None
    /\ call = NoCall

\* Some DataSetParser::parse call so far has returned state Cancelled.
WasCancelled ==
    last # None /\ (last[1].after_cancelled \/ last[1].result.state = "Cancelled")

\* The caller hands the next n bytes of the stream to Parser::parse.
ParserParse(n) ==
    /\ engine = "Parser"
    /\ ~parser.panicked
    /\ parser' = Parser_parse(parser, Slice(stream, fed, fed + n))
    /\ fed' = fed + n
    /\ UNCHANGED <<engine, dataset, stream, policy, dsp, handler, offset,
                   ncalls, last, full, window, attr, call>>

\* The caller calls DataSetParser::parse with the stream from the first byte
\* not yet reported consumed up to byte `upto` (split_parse, data_set.rs:
\* 124-127, passes &bytes[result.bytes_consumed..] to the second call).
DataSetParse(upto) ==
    /\ engine = "DataSetParser"
    /\ full = None
    /\ ncalls < MaxCalls
    /\ \E bytes \in {Slice(stream, offset, upto)} :
       \E out \in {DataSetParser_parse(dsp, handler, bytes)} :
           /\ dsp' = out.d
           /\ handler' = out.handler
           /\ offset' = offset + out.result.bytes_consumed
           /\ last' = Some([from |-> offset,
                            empty |-> bytes = <<>>,
                            to_end |-> upto = Len(stream),
                            consumed_all |->
                                out.result.bytes_consumed = Len(bytes),
                            overrun |->
                                out.result.bytes_consumed > Len(bytes),
                            after_cancelled |-> WasCancelled,
                            result |-> out.result])
    /\ ncalls' = ncalls + 1
    /\ UNCHANGED <<engine, dataset, stream, policy, parser, fed, full,
                   window, attr, call>>

\* The caller calls parse_full on the first `upto` bytes of the stream.
ParseFull(upto) ==
    /\ engine = "DataSetParser"
    /\ full = None
    /\ ncalls = 0
    /\ \E out \in {parse_full(handler, Slice(stream, 0, upto))} :
           /\ handler' = out.handler
           /\ full' = Some([len |-> upto, result |-> out.result])
    /\ UNCHANGED <<engine, dataset, stream, policy, parser, fed, dsp, offset,
                   ncalls, last, window, attr, call>>

Next ==
    \/ \E n \in 0 .. (Len(stream) - fed) : ParserParse(n)
    \/ \E upto \in offset .. Len(stream) : DataSetParse(upto)
    \/ \E upto \in 0 .. Len(stream) : ParseFull(upto)

Spec == Init /\ [][Next]_vars

\* ------------------------------------------------- the header decoders alone
\* Byte values a window is made of.
ByteSamples == {1, 22}

\* VR codes of a window: the six with a 32-bit length (OB OW SQ OF UT UN), two
\* with a 16-bit length (CS UL), and malformed ones (two zero bytes, "O" and
\* a zero byte, "BO", "UB").
VRSamples ==
    {<<79, 66>>, <<79, 87>>, <<83, 81>>, <<79, 70>>, <<85, 84>>, <<85, 78>>,
     <<67, 83>>, <<85, 76>>, <<0, 0>>, <<79, 0>>, <<66, 79>>, <<85, 66>>}

\* Windows of 12 bytes: tag, VR code and six more bytes.
Windows12 ==
    {t \o v \o r : t \in [1 .. 4 -> ByteSamples], v \in VRSamples,
                   r \in [1 .. 6 -> ByteSamples]}

\* Windows of 8 bytes, the header size of a 16-bit length and of the implicit
\* encoding.
Windows8 ==
    {t \o v \o r : t \in [1 .. 4 -> ByteSamples], v \in VRSamples,
                   r \in [1 .. 2 -> ByteSamples]}

\* A window, and no decoder applied yet.
DecodeInit ==
    /\ engine = "Attribute"
    /\ dataset = <<>>
    /\ stream = <<>>
    /\ policy = <<>>
    /\ parser = Parser_new
    /\ fed = 0
    /\ dsp = DataSetParser_default
    /\ handler = <<>>
    /\ offset = 0
    /\ ncalls = 0
    /\ last = None
    /\ full = None
    /\ window \in Windows8 \cup Windows12
    /\ attr = None
    /\ call = NoCall

\* Attribute::ele(&window), on a window that holds the header.
DecodeEle ==
    /\ attr = None
    /\ ~ele_panics(window)
    /\ attr' = Some([decoder |-> "ele", attribute |-> ele(window)])
    /\ UNCHANGED <<engine, dataset, stream, policy, parser, fed, dsp, handler,
                   offset, ncalls, last, full, window, call>>

\* Attribute::ile(&window)
DecodeIle ==
    /\ attr = None
    /\ attr' = Some([decoder |-> "ile", attribute |-> ile(window)])
    /\ UNCHANGED <<engine, dataset, stream, policy, parser, fed, dsp, handler,
                   offset, ncalls, last, full, window, call>>

DecodeNext == DecodeEle \/ DecodeIle

DecodeSpec == DecodeInit /\ [][DecodeNext]_vars

\* ------------------------------- the driver's loop, one iteration at a time
\* The continuations a Partial result may carry (Box<dyn Parser>).
Continuations ==
    {[kind |-> "Continuation", id |-> k] : k \in 1 .. MaxContinuations}

\* The results a sub-parser may return on these bytes under the protocol: any
\* state, no more bytes consumed than it was given, and a continuation with
\* Partial and with no other state.
SubResults(bytes) ==
    {ParseResult(state, n, IF state = "Partial" THEN Some(k) ELSE None, <<>>) :
        state \in ParseState, n \in 0 .. Len(bytes), k \in Continuations}

\* A fresh driver, not yet called.
DriverInit ==
    /\ engine = "DataSetParser"
    /\ dataset = <<>>
    /\ stream = <<>>
    /\ policy = <<>>
    /\ parser = Parser_new
    /\ fed = 0
    /\ dsp = DataSetParser_default
    /\ handler = <<>>
    /\ offset = 0
    /\ ncalls = 0
    /\ last = None
    /\ full = None
    /\ window = <<>>
    /\ attr = None
    /\ call = NoCall

\* data_set.rs:29-31 : parse is called with a slice of n bytes
Enter(n) ==
    /\ call.pc = "idle"
    /\ ncalls < MaxCalls
    /\ call' = [call EXCEPT !.pc = "loop", !.len = n,
                            !.remaining_bytes = [i \in 1 .. n |-> 0],
                            !.bytes_consumed = 0, !.result = None,
                            !.sub = None, !.before = None]
    /\ ncalls' = ncalls + 1
    /\ UNCHANGED <<engine, dataset, stream, policy, parser, fed, dsp, handler,
                   offset, last, full, window, attr>>

\* data_set.rs:33 and 63 : no bytes remain, the loop ends
Exhaust ==
    /\ call.pc = "loop"
    /\ ~LoopGuard(call.remaining_bytes)
    /\ call' = [call EXCEPT !.pc = "idle",
                            !.result = Some(Exhausted(call.bytes_consumed))]
    /\ UNCHANGED <<engine, dataset, stream, policy, parser, fed, dsp, handler,
                   offset, ncalls, last, full, window, attr>>

\* data_set.rs:60 : bytes remain and there is no sub-parser
Refuse ==
    /\ call.pc = "loop"
    /\ LoopGuard(call.remaining_bytes)
    /\ NoParser(dsp)
    /\ call' = [call EXCEPT !.pc = "idle", !.result = Some(Err)]
    /\ UNCHANGED <<engine, dataset, stream, policy, parser, fed, dsp, handler,
                   offset, ncalls, last, full, window, attr>>

\* data_set.rs:36 : the sub-parser fails and `?` passes the failure on
SubFails ==
    /\ call.pc = "loop"
    /\ LoopGuard(call.remaining_bytes)
    /\ ~NoParser(dsp)
    /\ call' = [call EXCEPT !.pc = "idle", !.result = Some(Err),
                            !.sub = Some("Err"), !.before = dsp.parser]
    /\ UNCHANGED <<engine, dataset, stream, policy, parser, fed, dsp, handler,
                   offset, ncalls, last, full, window, attr>>

\* data_set.rs:36-57 : one iteration on the sub-parser's result r
Drive(r) ==
    /\ call.pc = "loop"
    /\ LoopGuard(call.remaining_bytes)
    /\ ~NoParser(dsp)
    /\ LET consumed == Accumulate(call.bytes_consumed, r) IN
       /\ dsp' = [parser |-> InstallParser(dsp.parser, r),
                  total_bytes_consumed |->
                      dsp.total_bytes_consumed + r.bytes_consumed]
       /\ call' = [call EXCEPT
                     !.bytes_consumed = consumed,
                     !.remaining_bytes = From(@, r.bytes_consumed),
                     !.sub = Some(r.state),
                     !.before = dsp.parser,
                     !.cancelled = @ \/ r.state = "Cancelled",
                     !.pc = IF Returns(r.state) THEN "idle" ELSE "loop",
                     !.result = IF Returns(r.state)
                                THEN Some(Ok(r.state, consumed)) ELSE None]
    /\ UNCHANGED <<engine, dataset, stream, policy, parser, fed, handler,
                   offset, ncalls, last, full, window, attr>>

\* The body of the while loop.
Loop ==
    \/ Exhaust
    \/ Refuse
    \/ SubFails
    \/ \E r \in SubResults(call.remaining_bytes) : Drive(r)

DriverNext ==
    \/ \E n \in 0 .. MaxChunk : Enter(n)
    \/ Loop

DriverSpec == DriverInit /\ [][DriverNext]_vars

\* A call that has been entered keeps running: the loop body is always taken
\* again until the call returns.
DriverFairSpec == DriverSpec /\ WF_vars(Loop)

\* ----------------------------------------------- what the data set encodes
\* Header length of an attribute with this VR (the table of spec section 6).
HeaderLen(vr) == IF length_is_u32(vr) THEN 12 ELSE 8

RECURSIVE AttrStart(_)
\* Stream offset of the first header byte of attribute k (k = Len + 1: the
\* end of the stream).
AttrStart(k) ==
    IF k = 1 THEN 0
    ELSE AttrStart(k - 1) + HeaderLen(dataset[k - 1].vr) + dataset[k - 1].length

\* Stream offset of the first payload byte of attribute k.
PayloadStart(k) == AttrStart(k) + HeaderLen(dataset[k].vr)

\* The offsets at which an attribute ends or the stream starts.
Boundaries == {AttrStart(k) : k \in 1 .. Len(dataset) + 1}

\* Tag, VR and length of attribute k.
ExpectedHeader(k) ==
    [tag |-> [group |-> 2, element |-> k - 1],
     vr |-> dataset[k].vr,
     length |-> dataset[k].length]

HeaderOf(attribute) ==
    [tag |-> attribute.tag, vr |-> attribute.vr, length |-> attribute.length]

\* The header callbacks of a log, in order.
Headers(log) == SelectSeq(log, IsElement)

\* The handler never answers Stop.
NeverStops == \A k \in DOMAIN policy : policy[k] # "Stop"

\* Some header callback of the log was answered Stop.
StopAnswered(log) ==
    \E i \in 1 .. Len(log) : IsElement(log[i]) /\ log[i].control = "Stop"

RECURSIVE Coalesce(_)
\* A log with the payload fragments of each attribute joined: one entry per
\* header callback, holding the attribute, the answer and all the payload
\* bytes delivered for it, in delivery order.  A data callback that does not
\* belong to the latest header stays an entry of its own.
Coalesce(log) ==
    IF log = <<>> THEN <<>>
    ELSE LET front == Coalesce(SubSeq(log, 1, Len(log) - 1))
             e == log[Len(log)]
         IN  IF IsData(e) /\ front # <<>>
                /\ front[Len(front)].attribute = e.attribute
             THEN [front EXCEPT ![Len(front)].data = @ \o e.data]
             ELSE Append(front, e)

\* The driver's Handler after one DataSetParser::parse call on the whole
\* stream.
OneCallHandler ==
    DataSetParser_parse(DataSetParser_default, <<>>, stream).handler

\* The buffering Parser after one Parser::parse call on the whole stream.
OneCallParser == Parser_parse(Parser_new, stream)

\* ------------------------------------------------------------------ claims

C2_SplitConsumesAll ==
    (engine = "DataSetParser" /\ ncalls = 2 /\ last[1].to_end /\ NeverStops)
    => /\ last[1].result.ok
       /\ last[1].result.bytes_consumed = Len(stream) - last[1].from

\* C2 witness: the first call stopped inside the stream having consumed
\* something, and the second call went to the end.
C2_Witness ==
    /\ engine = "DataSetParser" /\ ncalls = 2 /\ NeverStops
    /\ last[1].to_end /\ Len(dataset) = 2
    /\ last[1].from > 0 /\ last[1].from < Len(stream)
    /\ last[1].result.bytes_consumed > 0

\* C3 (as claimed): every DataSetParser::parse call made after a call that
\* returned Cancelled fails (Err), whatever its input slice.
C3_CancelledIsTerminal ==
    (engine = "DataSetParser" /\ last # None /\ last[1].after_cancelled)
    => ~last[1].result.ok

\* C4: a header callback answered Stop is the last callback the Callback or
\* Handler ever receives, in the buffering Parser and in the driver, however
\* many parse calls follow and whatever input they are given.
C4_NothingAfterStop ==
    \A log \in {parser.callback, handler} :
        \A i \in 1 .. Len(log) :
            (IsElement(log[i]) /\ log[i].control = "Stop") => i = Len(log)

\* C4 witness: the buffering Parser was stopped at the first header while the
\* whole second record lies unread in its buffer.
C4_Witness ==
    /\ engine = "Parser" /\ Len(dataset) = 2
    /\ parser.state = "Stop" /\ StopAnswered(parser.callback)
    /\ fed = Len(stream)
    /\ Len(parser.buffer) - parser.buffer_position >= HeaderThreshold + 2

\* C5 (as claimed): parse_full fails whenever its input ends off an attribute
\* boundary and the Handler did not stop, and succeeds with the cancellation
\* flag clear only on input that ends on an attribute boundary.
C5_TruncationFails ==
    (engine = "DataSetParser" /\ full # None)
    => /\ (full[1].len \notin Boundaries /\ ~StopAnswered(handler))
            => ~full[1].result.ok
       /\ (full[1].result.ok /\ ~full[1].result.cancelled)
            => full[1].len \in Boundaries

\* C6 (as claimed): once the whole stream has been handed to the buffering
\* Parser, with a callback that never stops, the header callbacks are exactly
\* the attributes of the data set, in order.
C6_HeaderOncePerAttribute ==
    (engine = "Parser" /\ fed = Len(stream) /\ NeverStops)
    => /\ Len(Headers(parser.callback)) = Len(dataset)
       /\ \A k \in 1 .. Len(Headers(parser.callback)) :
            k <= Len(dataset)
            /\ HeaderOf(Headers(parser.callback)[k].attribute) = ExpectedHeader(k)

\* C7 (as claimed): no Parser::parse call fails, and once the whole stream
\* has been handed over in chunks the callbacks on record are those of a
\* single call on the whole stream.
C7_ChunkingIndependence ==
    engine = "Parser"
    => /\ ~parser.panicked
       /\ fed = Len(stream) => parser.callback = OneCallParser.callback

\* The data callbacks of a log made for this attribute.
DataFor(log, attribute) ==
    {j \in 1 .. Len(log) : IsData(log[j]) /\ log[j].attribute = attribute}

\* C8: in the buffering Parser, an attribute with a payload whose header
\* callback answered Data gets at most one data callback, exactly one once
\* its payload is wholly in the buffer, and the slice is the stream's bytes
\* at [data_position, data_position + length); every data callback follows a
\* header callback for its attribute that answered Data.
C8_DataDeliveredOnce ==
    engine = "Parser" =>
    LET log == parser.callback IN
    /\ \A i \in 1 .. Len(log) :
        (IsElement(log[i]) /\ log[i].control = "Data"
            /\ log[i].attribute.length > 0)
        => LET a == log[i].attribute
               calls == DataFor(log, a)
           IN  /\ Cardinality(calls) <= 1
               /\ Len(parser.buffer) >= a.data_position + a.length
                    => Cardinality(calls) = 1
               /\ \A j \in calls :
                    /\ j > i
                    /\ log[j].data =
                        Slice(stream, a.data_position, a.data_position + a.length)
    /\ \A j \in 1 .. Len(log) :
        IsData(log[j])
        => \E i \in 1 .. j - 1 :
            /\ IsElement(log[i]) /\ log[i].control = "Data"
            /\ log[i].attribute = log[j].attribute
            /\ log[j].data = Payload(Len(Headers(SubSeq(log, 1, i))),
                                     log[i].attribute.length)

\* C8 witness: a payload of two bytes was delivered for the second attribute,
\* whose header the callback answered with Data.
C8_Witness ==
    /\ engine = "Parser"
    /\ \E j \in 1 .. Len(parser.callback) :
        /\ IsData(parser.callback[j])
        /\ Len(parser.callback[j].data) >= 2
        /\ parser.callback[j].attribute.tag.element = 1

\* C9: in the buffering Parser, an attribute whose header callback answered
\* Element gets no data callback, and its payload is stepped over: the next
\* header is decoded from the byte right after the payload, and the read
\* position and the stream position stand together, at the payload's start
\* while it is awaited and at its end once it has been stepped over.
C9_ElementSkipsPayload ==
    engine = "Parser" =>
    LET log == parser.callback
        heads == Headers(log)
    IN  /\ parser.buffer_position = parser.data_position
        /\ \A k \in 1 .. Len(heads) :
            heads[k].control = "Element"
            => LET a == heads[k].attribute
                   next == a.data_position + a.length
               IN  /\ DataFor(log, a) = {}
                   /\ k < Len(heads)
                        => LET start == next + HeaderLen(heads[k + 1].attribute.vr)
                           IN  /\ start <= Len(stream)
                               /\ heads[k + 1].attribute =
                                    [ele(From(stream, next))
                                        EXCEPT !.data_position = start]
                   /\ (k = Len(heads) /\ ~parser.panicked)
                        => parser.data_position =
                             IF parser.element_data_bytes_remaining > 0
                             THEN a.data_position ELSE next

\* C9 witness: a header answered Element announced a payload, and the next
\* header has been decoded.
C9_Witness ==
    /\ engine = "Parser"
    /\ Len(Headers(parser.callback)) = 2
    /\ Headers(parser.callback)[1].control = "Element"
    /\ Headers(parser.callback)[1].attribute.length > 0

\* C10: the data_position of every Attribute the buffering Parser passes to
\* its callback is the offset, from the first byte of the stream, of the first
\* payload byte of that attribute, whatever the chunks were.
C10_AbsoluteDataPosition ==
    engine = "Parser" =>
    LET log == parser.callback IN
    \A i \in 1 .. Len(log) :
        LET k == Len(Headers(SubSeq(log, 1, i))) IN
        /\ k \in 1 .. Len(dataset)
        /\ log[i].attribute.data_position = PayloadStart(k)

\* C10 witness: the second header was decoded in a call that ended before its
\* payload arrived, so in a later call than the first bytes of the stream.
C10_Witness ==
    /\ engine = "Parser"
    /\ Len(Headers(parser.callback)) = 2
    /\ parser.element_data_bytes_remaining > 0
    /\ fed < Len(stream)

\* Little-endian value of bytes a+1 .. b of the window (offsets from 0).
LittleEndian(a, b) ==
    LET RECURSIVE Value(_)
        Value(i) == IF i > b THEN 0 ELSE window[i] + 256 * Value(i + 1)
    IN  Value(a + 1)

\* The six VR codes with a 32-bit length: OB OW SQ OF UT UN.
LongVRs ==
    {<<79, 66>>, <<79, 87>>, <<83, 81>>, <<79, 70>>, <<85, 84>>, <<85, 78>>}

\* C11: Attribute::ele decodes the tag as (LE u16 of bytes 0-1, LE u16 of
\* bytes 2-3) and the VR as bytes 4-5; for OB, OW, SQ, OF, UT and UN the
\* length is the LE u32 of bytes 8-11 and the payload offset 12; for every
\* other VR code, malformed ones too, the length is the LE u16 of bytes 6-7
\* and the payload offset 8.
C11_EleDecode ==
    (attr # None /\ attr[1].decoder = "ele")
    => LET a == attr[1].attribute
           vr == <<window[5], window[6]>>
       IN  /\ a.tag = [group |-> LittleEndian(0, 2), element |-> LittleEndian(2, 4)]
           /\ a.vr = vr
           /\ vr \in LongVRs
                => a.length = LittleEndian(8, 12) /\ a.data_position = 12
           /\ vr \notin LongVRs
                => a.length = LittleEndian(6, 8) /\ a.data_position = 8

\* C11 witness: a header with a malformed VR code whose first byte is that of
\* OB ("O" and a zero byte) has been decoded from a window of 12 bytes whose
\* bytes 6-7 differ from its bytes 8-9.
C11_Witness ==
    /\ attr # None /\ attr[1].decoder = "ele"
    /\ <<window[5], window[6]>> = <<79, 0>>
    /\ Len(window) = 12
    /\ <<window[7], window[8]>> # <<window[9], window[10]>>

\* The VR code UN, "unknown".
UnknownVR == <<85, 78>>

\* C12: Attribute::ile decodes the tag as (LE u16 of bytes 0-1, LE u16 of
\* bytes 2-3), the length as the LE u32 of bytes 4-7, the payload offset as
\* 8, and reports the VR as unknown (the code UN) whatever the header bytes
\* are.
C12_IleDecode ==
    (attr # None /\ attr[1].decoder = "ile")
    => LET a == attr[1].attribute
       IN  /\ a.tag = [group |-> LittleEndian(0, 2), element |-> LittleEndian(2, 4)]
           /\ a.length = LittleEndian(4, 8)
           /\ a.data_position = 8
           /\ a.vr = UnknownVR

\* C12 witness: an 8-byte header whose bytes 4-5 are a VR code with a 16-bit
\* length under the explicit encoding (CS) has been decoded as implicit.
C12_Witness ==
    /\ attr # None /\ attr[1].decoder = "ile"
    /\ Len(window) = 8
    /\ <<window[5], window[6]>> = <<67, 83>>
    /\ window[7] # window[8]

\* C13 (as claimed): whenever the buffering Parser is about to decode a header
\* (it is not stopped, no payload is pending and the header test of line 61
\* passes), the window from the read position to the end of the buffer holds
\* the whole header, 8 bytes or 12 for OB/OW/SQ/OF/UT/UN; and the read
\* position is never beyond the end of the buffer.
C13_HeaderWindowWhole ==
    engine = "Parser" =>
    LET bytes == From(parser.buffer, parser.buffer_position) IN
    /\ parser.buffer_position <= Len(parser.buffer)
    /\ (~Stopped(parser) /\ parser.element_data_bytes_remaining = 0
            /\ HeaderAvailable(parser))
        => Len(bytes) >= HeaderLen(<<bytes[5], bytes[6]>>)

\* C14: whatever results the sub-parsers return, provided none consumes more
\* than it was given, DataSetParser::parse returns Completed only when
\* bytes_consumed equals the length of its input slice, and in every Ok
\* result bytes_consumed is at most that length.
C14_CompletedConsumesAll ==
    (call.pc = "idle" /\ call.result # None /\ call.result[1].ok)
    => /\ call.result[1].bytes_consumed <= call.len
       /\ call.result[1].state = "Completed"
            => call.result[1].bytes_consumed = call.len

\* C14 witness: a call on the longest slice returned Completed after a
\* sub-parser result that took only part of the slice.
C14_Witness ==
    /\ call.pc = "idle" /\ call.len = MaxChunk
    /\ call.result = Some(Ok("Completed", MaxChunk))
    /\ call.sub = Some("Partial")
    /\ dsp.total_bytes_consumed > MaxChunk

C16_IncompleteStopsLoop ==
    call.sub = Some("Incomplete")
    => /\ call.pc = "idle"
       /\ call.result =
            Some(Ok("Incomplete", call.len - Len(call.remaining_bytes)))
       /\ dsp.parser = call.before
       /\ ~NoParser(dsp)

\* C16 witness: a continuation returned Incomplete with bytes still
\* remaining, after part of the slice had been consumed.
C16_Witness ==
    /\ call.sub = Some("Incomplete")
    /\ call.remaining_bytes # <<>>
    /\ call.bytes_consumed > 0
    /\ dsp.parser # None /\ dsp.parser[1] \in Continuations

\* C17 (as claimed): every DataSetParser::parse call returns, whatever
\* protocol-conforming results the sub-parsers give, results that consume no
\* bytes among them.
C17_ParseTerminates == (call.pc = "loop") ~> (call.pc = "idle")

\* C18: in the buffering Parser every data callback comes after a header
\* callback, and the latest header callback before it passed the very
\* Attribute (tag, VR, length, data_position) the data callback passes: the
\* data callback of an attribute lies between the header callback that
\* announced it and the header callback of the next attribute.
C18_CallbackOrdering ==
    engine = "Parser" =>
    LET log == parser.callback IN
    \A j \in 1 .. Len(log) :
        IsData(log[j])
        => \E i \in 1 .. j - 1 :
            /\ IsElement(log[i])
            /\ \A k \in i + 1 .. j - 1 : ~IsElement(log[k])
            /\ log[i].attribute = log[j].attribute
            /\ HeaderOf(log[i].attribute) =
                    ExpectedHeader(Len(Headers(SubSeq(log, 1, i))))

\* C18 witness: the data callback of the first attribute lies between its
\* header callback and the header callback of the second attribute, which has
\* had its data callback too.
C18_Witness ==
    /\ engine = "Parser"
    /\ Len(parser.callback) = 4
    /\ IsElement(parser.callback[1]) /\ IsData(parser.callback[2])
    /\ IsElement(parser.callback[3]) /\ IsData(parser.callback[4])

\* C19: no Ok result of DataSetParser::parse has state Partial (so parse_full
\* never takes its Partial arm), and a call that ends with the slice used up
\* right after a Partial sub-parser result, the driver holding the suspended
\* continuation, returns Completed.
C19_NeverPartial ==
    (call.pc = "idle" /\ call.result # None /\ call.result[1].ok)
    => /\ call.result[1].state \in {"Cancelled", "Incomplete", "Completed"}
       /\ call.sub = Some("Partial")
            => /\ call.result[1] = Ok("Completed", call.len)
               /\ FullResult(call.result[1]) =
                    [ok |-> TRUE, bytes_consumed |-> call.len,
                     cancelled |-> FALSE]

\* C19 witness: the first call on a fresh driver (as parse_full makes it)
\* returned with a continuation suspended by a Partial result.
C19_Witness ==
    /\ ncalls = 1 /\ call.pc = "idle"
    /\ call.sub = Some("Partial")
    /\ call.result # None /\ call.result[1].ok
    /\ dsp.parser # None /\ dsp.parser[1] \in Continuations

=============================================================================
